---------------------------- MODULE Spec2Model ----------------------------
(***************************************************************************)
(* Model of split_calculator.py: prepare_gpx_dataframe (the track loader)  *)
(* and compute_splits (the split resampler).                               *)
(*                                                                         *)
(* Numbers.  The program computes in binary floating point; the model      *)
(* computes in exact fixed point:                                          *)
(*   - a timestamp and an elapsed time are whole seconds;                  *)
(*   - a position, a segment distance and a cumulative distance are whole  *)
(*     centimetres (hundredths of a metre);                                *)
(*   - a step, a marker and a split distance are hundredths of the unit;   *)
(*   - a unit conversion is hundredths of a metre per unit;                *)
(*   - a pace is hundredths of a second per unit, or NaN / Inf;            *)
(*   - an entry of the distance_unit column is the unevaluated quotient    *)
(*     <<cumulative centimetres, conversion>>, compared exactly with a     *)
(*     marker (MarkerLess, EntryLess) and rounded by Round2.               *)
(* The drift current += step accumulates in floating point, and the gap    *)
(* between a decimal and its nearest double, are therefore not modelled.   *)
(* A point's (latitude, longitude) is a position on one meridian, so that  *)
(* geodesic is the absolute difference of two positions.                   *)
(***************************************************************************)
EXTENDS Integers, Sequences, FiniteSets, TLC

VARIABLES gpx, df, unit, step, result

vars == <<gpx, df, unit, step, result>>

(***************************************************************************)
(* Bounds of the model.                                                    *)
(***************************************************************************)
MaxPoints == 3
MaxTime == 1

(***************************************************************************)
(* Module constants (split_calculator.py lines 8-18).                      *)
(***************************************************************************)
ALLOWED_STEPS ==
    [ meters |-> {10000, 20000, 40000, 60000, 80000, 100000, 120000, 160000,
                  200000, 320000, 500000, 1000000},
      km     |-> {100, 200, 500, 1000, 2000},
      mi     |-> {25, 50, 100, 200, 300, 400, 500, 1000, 1310} ]

UNIT_CONVERSIONS == [ meters |-> 100, km |-> 100000, mi |-> 160934 ]

\* The allow-lists as the docstring of compute_splits documents them
\* (lines 91-95): 'mi' is 0.25, 0.5, ..., 13.1 in increments of 0.25.
DocumentedSteps ==
    [ meters |-> {10000, 20000, 40000, 60000, 80000, 100000, 120000, 160000,
                  200000, 320000, 500000, 1000000},
      km     |-> {100, 200, 500, 1000, 2000},
      mi     |-> {25 * k : k \in 1..52} \cup {1310} ]

(***************************************************************************)
(* Arithmetic helpers.                                                     *)
(***************************************************************************)
Abs(x) == IF x < 0 THEN -x ELSE x

\* round(n / d) to the nearest integer, ties to even (Python's and numpy's
\* round); d > 0.
RoundHalfEven(n, d) ==
    LET q == n \div d
        r == n % d
    IN  IF 2 * r < d THEN q
        ELSE IF 2 * r > d THEN q + 1
        ELSE IF q % 2 = 0 THEN q ELSE q + 1

\* round(x, 2) of a distance_unit entry x = <<centimetres, conversion>>:
\* the result in hundredths of the unit.
Round2(x) == RoundHalfEven(x[1] * 100, x[2])

\* marker < x and x < marker, for a marker in whole hundredths of the unit
\* and a distance_unit entry x: x is q hundredths and a fraction r / x[2] of
\* one.
MarkerLess(marker, x) ==
    LET q == (x[1] * 100) \div x[2]
        r == (x[1] * 100) % x[2]
    IN  marker < q \/ (marker = q /\ r > 0)

EntryLess(x, marker) == (x[1] * 100) \div x[2] < marker

(***************************************************************************)
(* prepare_gpx_dataframe (lines 21-73).                                    *)
(***************************************************************************)
RECURSIVE Concat(_)
Concat(ss) == IF ss = <<>> THEN <<>> ELSE Head(ss) \o Concat(Tail(ss))

\* lines 46-56: the points of every segment of every track, in file order.
FlattenPoints(g) == Concat([t \in 1..Len(g) |-> Concat(g[t])])

\* geopy's geodesic(prev, curr).meters, on one meridian.
geodesic(prev, curr) == Abs(curr.latitude - prev.latitude)

\* A loader that forgets to sort: the rows stay in file order.
KeepFileOrder(points) == {points}

\* line 60: df.sort_values(by='time').reset_index(drop=True).  The default
\* sort kind is quicksort, which is not stable: rows of equal time come out
\* in any order.  SortedOrders(points, n) is the set of the orders the sort
\* may leave the first n points in: each order of the first n - 1 points,
\* with point n put at any place that keeps the times non-decreasing.
InsertAt(s, p, k) == SubSeq(s, 1, k) \o <<p>> \o SubSeq(s, k + 1, Len(s))

RECURSIVE SortedOrders(_, _)
SortedOrders(points, n) ==
    IF n = 0 THEN {<<>>}
    ELSE UNION { { InsertAt(s, points[n], k) :
                     k \in { j \in 0..Len(s) :
                               /\ j = 0 \/ s[j].time <= points[n].time
                               /\ j = Len(s) \/ points[n].time <= s[j + 1].time } } :
                 s \in SortedOrders(points, n - 1) }

SortValuesByTime(points) == SortedOrders(points, Len(points))

\* lines 62-67: distances = [0] + [geodesic(row i-1, row i) ...].
SegmentDistances(sorted) ==
    [i \in 1..Len(sorted) |->
        IF i = 1 THEN 0 ELSE geodesic(sorted[i - 1], sorted[i])]

\* line 70: Series.cumsum(), the running sums of the column.
RECURSIVE SumTo(_, _)
SumTo(s, i) == IF i = 0 THEN 0 ELSE SumTo(s, i - 1) + s[i]

CumSum(s) == [i \in 1..Len(s) |-> SumTo(s, i)]

\* lines 58-71 on one sorted order of the points: the rows of the frame.
Annotate(sorted) ==
    LET distances == SegmentDistances(sorted)
        cumulative == CumSum(distances)
    IN  [i \in 1..Len(sorted) |->
            [ time              |-> sorted[i].time,
              latitude          |-> sorted[i].latitude,
              segment_meters    |-> distances[i],
              cumulative_meters |-> cumulative[i],
              elapsed_time      |-> sorted[i].time - sorted[1].time ]]

\* The frames prepare_gpx_dataframe may return for the file g (one per
\* order the sort may leave equal timestamps in); the frame has no
\* distance_unit column yet.
prepare_gpx_dataframe(g) ==
    { [rows |-> Annotate(s), distance_unit |-> <<>>] :
        s \in SortValuesByTime(FlattenPoints(g)) }


(***************************************************************************)
(* Floating-point values that may be undefined: a number of hundredths,    *)
(* NaN or +Inf.                                                            *)
(***************************************************************************)
Num(c) == [kind |-> "num", c |-> c]
NaN == [kind |-> "nan", c |-> 0]
Inf == [kind |-> "inf", c |-> 0]

\* Series division split_time_sec / split_distance followed by .round(2)
\* (lines 173-175): float64 division raises nothing, 0/0 is NaN and x/0 is
\* Inf.  t in seconds, d in hundredths of the unit.
PaceSeconds(t, d) ==
    IF d = 0 THEN (IF t = 0 THEN NaN ELSE Inf)
    ELSE IF d < 0 THEN Num(RoundHalfEven(-(t * 10000), -d))
    ELSE Num(RoundHalfEven(t * 10000, d))

\* int(x): truncates a number, raises on NaN and on Inf.
IntOf(x) ==
    IF x.kind = "nan"
    THEN [raised |-> "ValueError: cannot convert float NaN to integer", val |-> 0]
    ELSE IF x.kind = "inf"
    THEN [raised |-> "OverflowError: cannot convert float infinity to integer",
          val |-> 0]
    ELSE [raised |-> "none",
          val |-> IF x.c < 0 THEN -((-x.c) \div 100) ELSE x.c \div 100]

\* x < 3600 on a float: False for NaN and for Inf.
LessThan3600(x) == x.kind = "num" /\ x.c < 360000

(***************************************************************************)
(* str(timedelta(seconds=n)): "H:MM:SS", after "D day(s), " from one day   *)
(* on.                                                                     *)
(***************************************************************************)
DigitChars == <<"0", "1", "2", "3", "4", "5", "6", "7", "8", "9">>

RECURSIVE DecStr(_)
DecStr(n) ==
    IF n < 0 THEN "-" \o DecStr(-n)
    ELSE IF n < 10 THEN DigitChars[n + 1]
    ELSE DecStr(n \div 10) \o DigitChars[(n % 10) + 1]

TwoDigits(n) == DigitChars[(n \div 10) + 1] \o DigitChars[(n % 10) + 1]

TimedeltaStr(n) ==
    LET days == n \div 86400
        rest == n % 86400
        hms  == DecStr(rest \div 3600) \o ":" \o TwoDigits((rest % 3600) \div 60)
                    \o ":" \o TwoDigits(rest % 60)
    IN  IF days = 0 THEN hms
        ELSE DecStr(days) \o (IF Abs(days) = 1 THEN " day, " ELSE " days, ") \o hms

\* str.rjust(8, "0").
RECURSIVE RJust8(_)
RJust8(s) == IF Len(s) >= 8 THEN s ELSE RJust8("0" \o s)

\* The lambda of lines 158-159 and 179-180.
mmss(x) ==
    LET n == IntOf(x)
        t == TimedeltaStr(n.val)
    IN  IF n.raised # "none" THEN [raised |-> n.raised, str |-> ""]
        ELSE IF LessThan3600(x)
        THEN [raised |-> "none", str |-> SubSeq(t, 3, Len(t))]
        ELSE [raised |-> "none", str |-> t]

\* The lambda of lines 162 and 183.
hhmmss(x) ==
    LET n == IntOf(x)
    IN  IF n.raised # "none" THEN [raised |-> n.raised, str |-> ""]
        ELSE [raised |-> "none", str |-> RJust8(TimedeltaStr(n.val))]

(***************************************************************************)
(* compute_splits (lines 76-188).                                          *)
(***************************************************************************)
Last(s) == s[Len(s)]

\* A conversion in place: the converted distances are also written over
\* the cumulative_meters column, which the next call converts again.
ConvertInPlace(d, u) ==
    [ rows |-> [i \in 1..Len(d.rows) |->
                  [d.rows[i] EXCEPT !.cumulative_meters =
                      (@ * 100) \div UNIT_CONVERSIONS[u]]],
      distance_unit |-> [i \in 1..Len(d.rows) |->
                           <<d.rows[i].cumulative_meters, UNIT_CONVERSIONS[u]>>] ]

\* line 119: df['distance_unit'] = df['cumulative_meters'] / UNIT_CONVERSIONS[unit],
\* written into the frame the caller passed.
WithDistanceUnit(d, u) ==
    [d EXCEPT !.distance_unit =
        [i \in 1..Len(d.rows) |->
            <<d.rows[i].cumulative_meters, UNIT_CONVERSIONS[u]>>]]

\* A marker loop that runs while current <= max_unit_distance.
RECURSIVE SplitMarkersInclusive(_, _, _)
SplitMarkersInclusive(current, s, max_unit_distance) ==
    IF ~EntryLess(max_unit_distance, current)
    THEN <<current>> \o SplitMarkersInclusive(current + s, s, max_unit_distance)
    ELSE <<>>

\* lines 122-127: current = step; while current < max_unit_distance:
\* append round(current, 2); current += step.  current is a whole number of
\* hundredths (every allowed step is), which round(current, 2) leaves as it is.
RECURSIVE SplitMarkers(_, _, _)
SplitMarkers(current, s, max_unit_distance) ==
    IF MarkerLess(current, max_unit_distance)
    THEN <<current>> \o SplitMarkers(current + s, s, max_unit_distance)
    ELSE <<>>

\* bisect.bisect_right(a, x) in the place of bisect_left: if x < a[mid]:
\* hi = mid else: lo = mid + 1.
RECURSIVE BisectRightLoop(_, _, _, _)
BisectRightLoop(a, x, lo, hi) ==
    IF lo < hi
    THEN LET mid == (lo + hi) \div 2
         IN  IF MarkerLess(x, a[mid + 1])
             THEN BisectRightLoop(a, x, lo, mid)
             ELSE BisectRightLoop(a, x, mid + 1, hi)
    ELSE lo

bisect_right(a, x) == BisectRightLoop(a, x, 0, Len(a))

\* bisect.bisect_left(a, x), 0-based result: lo, hi = 0, len(a); while lo < hi:
\* mid = (lo + hi) // 2; if a[mid] < x: lo = mid + 1 else: hi = mid.
RECURSIVE BisectLeftLoop(_, _, _, _)
BisectLeftLoop(a, x, lo, hi) ==
    IF lo < hi
    THEN LET mid == (lo + hi) \div 2
         IN  IF EntryLess(a[mid + 1], x)
             THEN BisectLeftLoop(a, x, mid + 1, hi)
             ELSE BisectLeftLoop(a, x, lo, mid)
    ELSE lo

bisect_left(a, x) == BisectLeftLoop(a, x, 0, Len(a))

\* lines 129-139: one record per marker, unless the located index is 0 or
\* past the end.  df.loc[idx, ...] is row idx + 1 of the 1-based sequence.
RECURSIVE MarkerRecords(_, _)
MarkerRecords(d, markers) ==
    IF markers = <<>> THEN <<>>
    ELSE LET marker == Head(markers)
             rest   == MarkerRecords(d, Tail(markers))
             Record(idx) ==
                 IF idx = 0 \/ idx >= Len(d.rows)
                 THEN <<>>
                 ELSE <<[split |-> marker,
                         elapsed_time_sec |-> d.rows[idx + 1].elapsed_time]>>
         IN  Record(bisect_left(d.distance_unit, marker)) \o rest

\* A final split put at the head of split_data instead of its end.
FinalSplitFirst(split_data, split_markers, d) ==
    LET final_distance == Round2(Last(d.distance_unit))
        final_time     == Last(d.rows).elapsed_time
    IN  IF split_markers = <<>> \/ final_distance > Last(split_markers)
        THEN <<[split |-> final_distance, elapsed_time_sec |-> final_time]>>
                \o split_data
        ELSE split_data

\* lines 141-149: the final partial split.
WithFinalSplit(split_data, split_markers, d) ==
    LET final_distance == Round2(Last(d.distance_unit))
        final_time     == Last(d.rows).elapsed_time
    IN  IF split_markers = <<>> \/ final_distance > Last(split_markers)
        THEN Append(split_data,
                    [split |-> final_distance, elapsed_time_sec |-> final_time])
        ELSE split_data

\* lines 129-149: the list split_data the frame of records is built from.
SplitData(d, s) ==
    LET split_markers == SplitMarkers(s, s, Last(d.distance_unit))
    IN  WithFinalSplit(MarkerRecords(d, split_markers), split_markers, d)

\* lines 153-154: elapsed_time_sec.diff().fillna(elapsed_time_sec).
SplitTimeSec(split_data, i) ==
    IF i = 1 THEN split_data[1].elapsed_time_sec
    ELSE split_data[i].elapsed_time_sec - split_data[i - 1].elapsed_time_sec

\* lines 165-170: the first split distance is from 0, the others are diffs.
SplitDistance(split_data, i) ==
    IF i = 1 THEN split_data[1].split
    ELSE split_data[i].split - split_data[i - 1].split

\* lines 151-186: the columns of split_df, row by row.  A formatting field of
\* a row whose value int() rejects holds no string; SplitFrame raises then.
SplitRow(split_data, i) ==
    LET split_time_sec == SplitTimeSec(split_data, i)
        split_distance == SplitDistance(split_data, i)
        pace_seconds   == PaceSeconds(split_time_sec, split_distance)
        pace_mmss      == mmss(pace_seconds).str
    IN  [ split             |-> split_data[i].split,
          elapsed_time_sec  |-> split_data[i].elapsed_time_sec,
          split_time_sec    |-> split_time_sec,
          split_pace_mmss   |-> mmss(Num(split_time_sec * 100)).str,
          split_pace_hhmmss |-> hhmmss(Num(split_time_sec * 100)).str,
          split_distance    |-> split_distance,
          pace_seconds      |-> pace_seconds,
          pace_mmss         |-> pace_mmss,
          pace_hhmmss       |-> hhmmss(pace_seconds).str,
          pace              |-> pace_mmss ]

\* What the pace formatting of row i raises (line 178: int(x) in the lambda).
PaceFormatRaises(split_data, i) ==
    IntOf(PaceSeconds(SplitTimeSec(split_data, i), SplitDistance(split_data, i))).raised

\* lines 151-188: Series.apply calls the lambda on the rows in order, so the
\* first row whose pace int() rejects raises out of compute_splits.
SplitFrame(split_data) ==
    LET n   == Len(split_data)
        bad == { i \in 1..n : PaceFormatRaises(split_data, i) # "none" }
    IN  IF bad = {}
        THEN [raised |-> "none", value |-> [i \in 1..n |-> SplitRow(split_data, i)]]
        ELSE [raised |-> PaceFormatRaises(split_data,
                                          CHOOSE i \in bad : \A j \in bad : i <= j),
              value |-> <<>>]

\* A compute_splits that checks the step only after it has written the
\* distance_unit column.
ValidateStepLate(d, u, s) ==
    IF u \notin DOMAIN ALLOWED_STEPS
    THEN [raised |-> "ValueError: Invalid unit", value |-> <<>>, df |-> d]
    ELSE LET Frame(d1) ==
                 IF s \notin ALLOWED_STEPS[u]
                 THEN [raised |-> "ValueError: Step value not allowed for unit",
                       value |-> <<>>, df |-> d1]
                 ELSE CHOOSE out \in { SplitFrame(split_data) @@ [df |-> d1] :
                                         split_data \in {SplitData(d1, s)} } : TRUE
         IN  CHOOSE out \in { Frame(d1) : d1 \in {WithDistanceUnit(d, u)} } : TRUE

\* compute_splits(df, unit, step): what it raises or returns, and the frame
\* df as the call leaves it.
compute_splits(d, u, s) ==
    IF u \notin DOMAIN ALLOWED_STEPS
    THEN [raised |-> "ValueError: Invalid unit", value |-> <<>>, df |-> d]
    ELSE IF s \notin ALLOWED_STEPS[u]
    THEN [raised |-> "ValueError: Step value not allowed for unit",
          value |-> <<>>, df |-> d]
    ELSE \* A one-element set binds each intermediate value once it is computed.
         LET Frame(d1) ==
                 CHOOSE out \in { SplitFrame(split_data) @@ [df |-> d1] :
                                    split_data \in {SplitData(d1, s)} } : TRUE
         IN  CHOOSE out \in { Frame(d1) : d1 \in {WithDistanceUnit(d, u)} } : TRUE

(***************************************************************************)
(* Inputs.                                                                 *)
(***************************************************************************)
\* Positions on the meridian, in centimetres: 0 m, 804.67 m (0.5 'mi') and
\* 808 m (0.502 'mi', which rounds to 0.50).
Positions == {0, 80467, 80800}

PointValues == [time : 0..MaxTime, latitude : Positions]

\* The point lists of n points, in file order.
PointLists(n) == [1..n -> PointValues]

\* The point lists in the order a device records them: chronological, the
\* clock starting at 0.  (compute_splits reads the cumulative distances and
\* the elapsed times only, and every frame the loader returns is the frame
\* of such a list.)
RecordedTracks(n) ==
    { f \in PointLists(n) :
        /\ f[1].time = 0
        /\ \A i \in 1..(n - 1) : f[i].time <= f[i + 1].time }

\* A file is a sequence of tracks, a track a sequence of segments, a segment
\* a sequence of points.  Grouped(f, b, n) is the file of the first n points
\* of the list f, cut after point i into a new segment (b[i] = 1), a new
\* track (b[i] = 2) or not at all (b[i] = 0).
AddPoint(g, p, cut) ==
    IF g = <<>> \/ cut = 2 THEN Append(g, << <<p>> >>)
    ELSE LET t == g[Len(g)]
         IN  IF cut = 1 THEN [g EXCEPT ![Len(g)] = Append(t, <<p>>)]
             ELSE [g EXCEPT ![Len(g)] = [t EXCEPT ![Len(t)] = Append(t[Len(t)], p)]]

RECURSIVE Grouped(_, _, _)
Grouped(f, b, n) ==
    IF n = 0 THEN <<>>
    ELSE CHOOSE r \in { AddPoint(g, f[n], IF n = 1 THEN 2 ELSE b[n - 1]) :
                          g \in {Grouped(f, b, n - 1)} } : TRUE

Cuts(n) == [1..(n - 1) -> 0..2]

\* The (unit, step) arguments of a call: every pair the code allows, the
\* a 'mi' step only the docstring allows (0.75), and pairs no list holds
\* (km with step 3, an unknown unit).
ValidConfigs ==
    UNION { { <<u, s>> : s \in ALLOWED_STEPS[u] } : u \in DOMAIN ALLOWED_STEPS }

ConfigInputs ==
    ValidConfigs \cup { <<"mi", 75>>, <<"km", 300>>, <<"furlong", 100>> }

(***************************************************************************)
(* State machine.                                                          *)
(***************************************************************************)
NoFrame == [rows |-> <<>>, distance_unit |-> <<>>]
NoCall == [raised |-> "no call", value |-> <<>>]

Init ==
    /\ gpx = <<>>
    /\ df = NoFrame
    /\ unit = ""
    /\ step = 0
    /\ result = NoCall

\* df, title = prepare_gpx_dataframe(file), once per run; d is the frame the
\* call returns.
Load(g, d) ==
    /\ gpx = <<>>
    /\ gpx' = g
    /\ df' = d
    /\ UNCHANGED <<unit, step, result>>

\* splits = compute_splits(df, unit=u, step=s) on the loaded frame.
ComputeSplits(u, s) ==
    /\ df # NoFrame
    /\ \E out \in {compute_splits(df, u, s)} :
          /\ df' = out.df
          /\ result' = [raised |-> out.raised, value |-> out.value]
    /\ unit' = u
    /\ step' = s
    /\ UNCHANGED gpx

\* A recorded track is loaded; of the orders the sort may leave equal
\* timestamps in, the file order is taken (the other orders are the file
\* orders of other recorded tracks).
LoadTrack ==
    /\ gpx = <<>>
    /\ \E n \in 1..MaxPoints : \E f \in RecordedTracks(n) :
          \E d \in {[rows |-> Annotate(f), distance_unit |-> <<>>]} :
             /\ d \in prepare_gpx_dataframe(<< <<f>> >>)
             /\ Load(<< <<f>> >>, d)

\* Any file is loaded, the sort leaving equal timestamps in any order.
LoadFile ==
    /\ gpx = <<>>
    /\ \E n \in 1..MaxPoints : \E f \in PointLists(n) : \E b \in Cuts(n) :
          \E g \in {Grouped(f, b, n)} :
             \E d \in prepare_gpx_dataframe(g) : Load(g, d)

Compute == df # NoFrame /\ \E c \in ConfigInputs : ComputeSplits(c[1], c[2])

Next == LoadTrack \/ Compute

Spec == Init /\ [][Next]_vars

SpecLoader == Init /\ [][LoadFile]_vars

(***************************************************************************)
(* The state the claims speak of.                                          *)
(***************************************************************************)
Loaded == df # NoFrame
Called == result.raised # "no call"
Returned == result.raised = "none"
Records == result.value

ConfigErrors ==
    {"ValueError: Invalid unit", "ValueError: Step value not allowed for unit"}

\* The last call's (unit, step) is a pair the code allows.
AllowedConfig == unit \in DOMAIN ALLOWED_STEPS /\ step \in ALLOWED_STEPS[unit]

\* (u, s) is a pair the documented allow-lists hold.
DocumentedConfig(u, s) == u \in DOMAIN DocumentedSteps /\ s \in DocumentedSteps[u]

\* The track's total distance (centimetres), its total converted distance in
\* the unit of the last call, and the final point's elapsed time.
TotalMeters == Last(df.rows).cumulative_meters
Total == <<TotalMeters, UNIT_CONVERSIONS[unit]>>
FinalElapsed == Last(df.rows).elapsed_time

\* The number of markers k * step strictly below the total.
MarkerCount ==
    Cardinality({ k \in 1..((TotalMeters * 100) \div (step * UNIT_CONVERSIONS[unit]) + 1) :
                    MarkerLess(k * step, Total) })

\* The lowest row whose converted cumulative distance is >= marker.
FirstAtOrAfter(marker) ==
    CHOOSE i \in 1..Len(df.rows) :
        /\ ~EntryLess(<<df.rows[i].cumulative_meters, UNIT_CONVERSIONS[unit]>>, marker)
        /\ \A j \in 1..(i - 1) :
              EntryLess(<<df.rows[j].cumulative_meters, UNIT_CONVERSIONS[unit]>>, marker)

(***************************************************************************)
(* C1: the distance markers of the records compute_splits returns are      *)
(* strictly increasing in output order, the final partial record included. *)
(***************************************************************************)
C1_MarkersStrictlyIncreasing ==
    Returned =>
        \A i \in 1..(Len(Records) - 1) : Records[i].split < Records[i + 1].split

\* Two full splits and a final partial one have been returned.
C1_Witness ==
    /\ Returned
    /\ Len(Records) >= 3
    /\ Len(Records) = MarkerCount + 1
    /\ Last(Records).split # Len(Records) * step

(***************************************************************************)
(* C2: a track whose total converted distance is exactly k * step (k >= 1) *)
(* gives exactly k records, with markers step, 2 * step, ..., k * step,    *)
(* the k-th carrying the final point's elapsed time; for k = 1 the one     *)
(* record's duration is that time and its pace is that time over step.     *)
(***************************************************************************)
ExactMultiple ==
    /\ AllowedConfig
    /\ TotalMeters > 0
    /\ (TotalMeters * 100) % (step * UNIT_CONVERSIONS[unit]) = 0

SplitCount == (TotalMeters * 100) \div (step * UNIT_CONVERSIONS[unit])

C2_ExactMultipleHasNoLeftover ==
    (Called /\ ExactMultiple) =>
        /\ Returned
        /\ Len(Records) = SplitCount
        /\ \A i \in 1..SplitCount : Records[i].split = i * step
        /\ Records[SplitCount].elapsed_time_sec = FinalElapsed
        /\ SplitCount = 1 =>
              /\ Records[1].split_time_sec = FinalElapsed
              /\ Records[1].pace_seconds =
                    Num(RoundHalfEven(FinalElapsed * 10000, step))

\* A call on a track of exactly k >= 2 steps, whose first point at the total
\* distance is not its last point.
C2_Witness ==
    /\ Called
    /\ ExactMultiple
    /\ SplitCount >= 2
    /\ Returned
    /\ FirstAtOrAfter(SplitCount * step) < Len(df.rows)

(***************************************************************************)
(* C3 (as claimed): a track shorter than one step gives exactly one        *)
(* record, whose marker is the total rounded to 2 decimals and whose       *)
(* elapsed time and duration are the final point's elapsed time.           *)
(***************************************************************************)
C3_ShortTrackOneRecord ==
    (Called /\ AllowedConfig /\ EntryLess(Total, step)) =>
        /\ Returned
        /\ Len(Records) = 1
        /\ Records[1].split = Round2(Total)
        /\ Records[1].elapsed_time_sec = FinalElapsed
        /\ Records[1].split_time_sec = FinalElapsed

(***************************************************************************)
(* C4 (as claimed): a split of distance 0 does not crash compute_splits:   *)
(* the call fails with a dedicated computation error or returns a defined  *)
(* pace, and no NaN or Inf reaches the pace formatting.                    *)
(***************************************************************************)
C4_ZeroSplitHandled ==
    (Called /\ AllowedConfig /\ Round2(Total) = 0) =>
        /\ result.raised \in {"none", "ComputationError"}
        /\ Returned => \A i \in 1..Len(Records) : Records[i].pace_seconds.kind = "num"

(***************************************************************************)
(* C5: a call whose unit is unknown, or whose step is not in the unit's    *)
(* allow-list, raises the configuration error, returns no records, and     *)
(* leaves the frame as it was (no distance_unit column is written).        *)
(***************************************************************************)
C5_ConfigErrorBeforeComputation ==
    [][ (result'.raised # "no call" /\ ~DocumentedConfig(unit', step')) =>
            /\ result'.raised \in ConfigErrors
            /\ result'.value = <<>>
            /\ df' = df ]_vars

\* km with step 3 has been refused on a frame no call has written to.
C5_Witness ==
    /\ unit = "km"
    /\ step = 300
    /\ result.raised = "ValueError: Step value not allowed for unit"
    /\ Loaded
    /\ df.distance_unit = <<>>

(***************************************************************************)
(* C6 (as claimed): no pair of the documented allow-lists is refused; 'mi' *)
(* takes every multiple of 0.25 up to 13.1, and 13.1.                      *)
(***************************************************************************)
C6_DocumentedStepsAccepted ==
    (Called /\ DocumentedConfig(unit, step)) => result.raised \notin ConfigErrors

(***************************************************************************)
(* C7: whatever calls came before on the same frame, a call with an        *)
(* allowed (unit, step) raises or returns what the same call does on the   *)
(* frame as the loader returned it.                                        *)
(***************************************************************************)
C7_Stateless ==
    (Called /\ AllowedConfig) =>
        \E fresh \in {[rows |-> df.rows, distance_unit |-> <<>>]} :
            /\ fresh \in prepare_gpx_dataframe(gpx)
            /\ \E out \in {compute_splits(fresh, unit, step)} :
                  /\ result.raised = out.raised
                  /\ result.value = out.value

\* A call has returned records from a frame that holds the distance_unit
\* column the call wrote.
C7_Witness ==
    /\ Returned
    /\ Len(Records) >= 2
    /\ df.distance_unit # <<>>
    /\ df.distance_unit[1][2] = UNIT_CONVERSIONS[unit]

(***************************************************************************)
(* C8: the loader's rows are a permutation of the file's points, in        *)
(* non-decreasing time; segment distance, cumulative distance and elapsed  *)
(* time are 0 at the first row; each cumulative distance is the one before *)
(* plus the distance between the two points, each elapsed time is the time *)
(* since the first row; both never decrease.                               *)
(***************************************************************************)
Slots ==
    UNION { UNION { { <<t, s, i>> : i \in 1..Len(gpx[t][s]) } :
                    s \in 1..Len(gpx[t]) } : t \in 1..Len(gpx) }

PointOfRow(i) == [time |-> df.rows[i].time, latitude |-> df.rows[i].latitude]

C8_LoaderOutput ==
    Loaded =>
        LET n == Len(df.rows)
        IN  /\ n = Cardinality(Slots)
            /\ \A x \in Slots :
                  Cardinality({ y \in Slots : gpx[y[1]][y[2]][y[3]] = gpx[x[1]][x[2]][x[3]] })
                    = Cardinality({ i \in 1..n : PointOfRow(i) = gpx[x[1]][x[2]][x[3]] })
            /\ \A i \in 1..(n - 1) : df.rows[i].time <= df.rows[i + 1].time
            /\ df.rows[1].segment_meters = 0
            /\ df.rows[1].cumulative_meters = 0
            /\ df.rows[1].elapsed_time = 0
            /\ \A i \in 2..n :
                  /\ df.rows[i].segment_meters
                        = Abs(df.rows[i].latitude - df.rows[i - 1].latitude)
                  /\ df.rows[i].cumulative_meters
                        = df.rows[i - 1].cumulative_meters
                            + Abs(df.rows[i].latitude - df.rows[i - 1].latitude)
                  /\ df.rows[i].elapsed_time = df.rows[i].time - df.rows[1].time
                  /\ df.rows[i - 1].cumulative_meters <= df.rows[i].cumulative_meters
                  /\ df.rows[i - 1].elapsed_time <= df.rows[i].elapsed_time

\* Three points of two tracks, one of them of two segments, out of
\* chronological order in the file, have been loaded.
C8_Witness ==
    /\ Loaded
    /\ Len(df.rows) = 3
    /\ Len(gpx) = 2
    /\ \E t \in 1..Len(gpx) : Len(gpx[t]) = 2
    /\ \E i \in 1..2 : FlattenPoints(gpx)[i].time > FlattenPoints(gpx)[i + 1].time

(***************************************************************************)
(* C9: every marker k * step strictly below the total yields exactly one   *)
(* record (the index guard never drops one), the k-th of the output, and   *)
(* its elapsed time is that of the lowest row whose converted cumulative   *)
(* distance is >= the marker.                                              *)
(***************************************************************************)
C9_OneRecordPerMarker ==
    (Called /\ AllowedConfig /\ MarkerCount >= 1) =>
        /\ Returned
        /\ Len(Records) \in {MarkerCount, MarkerCount + 1}
        /\ \A k \in 1..MarkerCount :
              /\ Records[k].split = k * step
              /\ Records[k].elapsed_time_sec
                    = df.rows[FirstAtOrAfter(k * step)].elapsed_time
              /\ \A i \in 1..Len(Records) : Records[i].split = k * step => i = k

\* Two markers or more, the first reached by a row that is not the last.
C9_Witness ==
    /\ Returned
    /\ MarkerCount >= 2
    /\ FirstAtOrAfter(step) < Len(df.rows)
    /\ Records[1].elapsed_time_sec < FinalElapsed

(***************************************************************************)
(* C10 (as claimed): the total always exceeds the last marker, so the last *)
(* record of every output is the final record: its marker is the total     *)
(* rounded to 2 decimals, its elapsed time the final point's, and it       *)
(* follows one record per marker.                                          *)
(***************************************************************************)
C10_FinalRecordNeverLost ==
    (Called /\ AllowedConfig) =>
        /\ Returned
        /\ Len(Records) = MarkerCount + 1
        /\ Last(Records).split = Round2(Total)
        /\ Last(Records).elapsed_time_sec = FinalElapsed

=============================================================================
